---- MODULE Spec2Model ----
(***************************************************************************)
(* A model of linkhound's crawl engine (src/app.py): the WebsiteAnalyzer   *)
(* class, the worker thread that runs its start_analysis loop, and the     *)
(* Flask routes that create a job and query it.                            *)
(*                                                                         *)
(* The web site, the HEAD/GET responses and the rendering engine are the   *)
(* environment: every fetch draws its outcome from a small set.            *)
(***************************************************************************)
EXTENDS Integers, Sequences, FiniteSets, TLC

----------------------------------------------------------------------------
(* Bounds of the model.                                                    *)

\* most <a href> elements on one page
MaxLinks == 1
\* largest max_pages a start request asks for (0 .. MaxPagesBound)
MaxPagesBound == 2
\* largest max_depth a start request asks for (0 .. MaxDepthBound)
MaxDepthBound == 1
\* most /start_analysis requests the server specification serves
MaxJobs == 2
\* most hops of a HEAD response's history in the resolver specification
MaxHops == 2
\* most <a href> elements on one page of the site whose extraction breaks off
MaxPartialLinks == 2
\* most aggregate entries under one URL in the report specification
MaxItems == 6
\* most words of an anchor text in the classifier specification
MaxWords == 10

----------------------------------------------------------------------------
(* URLs.  A URL string is modelled by its parsed components: scheme ("" *)
(* when the string does not start with http:// or https://), host          *)
(* (netloc), the path without its extension, the path's extension as       *)
(* written (case kept) and the fragment ("" when absent).                  *)

Url(scheme, host, path, ext, frag) ==
    [scheme |-> scheme, host |-> host, path |-> path, ext |-> ext, frag |-> frag]

None == [none |-> TRUE]

\* str.lower() on the extensions the model uses
Lower(ext) ==
    CASE ext = "PDF" -> "pdf"
      [] ext = "JPG" -> "jpg"
      [] OTHER -> ext

skip_extensions ==
    {"jpg", "jpeg", "png", "gif", "pdf", "zip", "css", "js", "ico", "svg", "woff", "woff2"}

\* _clean_url as it would be if it returned url instead of urldefrag(url)[0]
_clean_url_with_fragment(url) ==
    [url EXCEPT !.scheme = IF @ \in {"http", "https"} THEN @ ELSE "https"]

\* WebsiteAnalyzer._clean_url
_clean_url(url) ==
    [url EXCEPT !.scheme = IF @ \in {"http", "https"} THEN @ ELSE "https",
                !.frag = ""]

\* urlparse(url).netloc
netloc(url) == url.host

\* WebsiteAnalyzer.is_valid_internal_url
is_valid_internal_url(self, url) ==
    IF netloc(url) # self.domain THEN FALSE
    ELSE IF Lower(url.ext) \in skip_extensions THEN FALSE
    ELSE TRUE

----------------------------------------------------------------------------
(* Anchor texts.  _classify_anchor_text looks at three things of a text:   *)
(* which of the bracketed prefixes it starts with, whether its lower-case  *)
(* form contains one of the generic phrases, and how many words            *)
(* text.split() yields.  A text is modelled by these three.                *)

Text(prefix, generic, words) ==
    [prefix |-> prefix, generic |-> generic, words |-> words]

\* len(text.split()) > 8 and len(text.split()) <= 2
LongWords == 8
ShortWords == 2

\* the rule table as it would be with the word counts tested before the
\* generic phrases
_classify_anchor_text_words_first(text) ==
    IF text.prefix = "[Image" THEN "image"
    ELSE IF text.prefix = "[Naked URL" THEN "naked_url"
    ELSE IF text.prefix = "[Empty" THEN "empty"
    ELSE IF text.words > LongWords THEN "long_descriptive"
    ELSE IF text.words <= ShortWords THEN "short"
    ELSE IF text.generic THEN "generic"
    ELSE "descriptive"

\* WebsiteAnalyzer._classify_anchor_text
_classify_anchor_text(text) ==
    IF text.prefix = "[Image" THEN "image"
    ELSE IF text.prefix = "[Naked URL" THEN "naked_url"
    ELSE IF text.prefix = "[Empty" THEN "empty"
    ELSE IF text.generic THEN "generic"
    ELSE IF text.words > LongWords THEN "long_descriptive"
    ELSE IF text.words <= ShortWords THEN "short"
    ELSE "descriptive"

----------------------------------------------------------------------------
(* The redirect resolver.  A HEAD response is either Exception or a record *)
(* [history, url, status_code], history being the sequence of redirect     *)
(* responses [url, status_code] that led to the final one.  Status codes   *)
(* are written as strings, "301", next to the sentinel "ERROR".            *)

Exception == [exception |-> TRUE]

Response(history, url, status_code) ==
    [history |-> history, url |-> url, status_code |-> status_code]

\* check_redirect_chain as it would be if the redirect branch left the final
\* response's status code out of status_codes
check_redirect_chain_history_only(url, response) ==
    IF response = Exception
    THEN [is_redirect |-> FALSE, original_url |-> url, final_url |-> url,
          redirect_count |-> 0, status_codes |-> <<"ERROR">>,
          redirect_chain |-> <<url>>]
    ELSE LET redirect_count == Len(response.history) IN
         IF redirect_count > 0
         THEN [is_redirect |-> TRUE, original_url |-> url,
               final_url |-> response.url,
               redirect_count |-> redirect_count,
               status_codes |->
                   [i \in 1..redirect_count |-> response.history[i].status_code],
               redirect_chain |->
                   [i \in 1..redirect_count |-> response.history[i].url]
                       \o <<response.url>>]
         ELSE [is_redirect |-> FALSE, original_url |-> url, final_url |-> url,
               redirect_count |-> 0,
               status_codes |-> <<response.status_code>>,
               redirect_chain |-> <<url>>]

\* WebsiteAnalyzer.check_redirect_chain
check_redirect_chain(url, response) ==
    IF response = Exception
    THEN [is_redirect |-> FALSE, original_url |-> url, final_url |-> url,
          redirect_count |-> 0, status_codes |-> <<"ERROR">>,
          redirect_chain |-> <<url>>]
    ELSE LET redirect_count == Len(response.history) IN
         IF redirect_count > 0
         THEN [is_redirect |-> TRUE, original_url |-> url,
               final_url |-> response.url,
               redirect_count |-> redirect_count,
               status_codes |->
                   [i \in 1..redirect_count |-> response.history[i].status_code]
                       \o <<response.status_code>>,
               redirect_chain |->
                   [i \in 1..redirect_count |-> response.history[i].url]
                       \o <<response.url>>]
         ELSE [is_redirect |-> FALSE, original_url |-> url, final_url |-> url,
               redirect_count |-> 0,
               status_codes |-> <<response.status_code>>,
               redirect_chain |-> <<url>>]

----------------------------------------------------------------------------
(* The job object.                                                         *)

\* WebsiteAnalyzer.__init__.  The last five fields are history variables:
\* every URL ever put into urls_to_visit; the URLs handed to crawl_page, in
\* order; the entries the loop popped and discarded; the passes made over
\* the pages, <<page, "requests">> and <<page, "selenium">> for a call of
\* extract_anchor_data and <<page, "fallback">> for the purge in between;
\* and the number of drivers created.
WebsiteAnalyzer(base_url, max_pages, max_depth, selenium_threshold) ==
    LET cleaned == _clean_url(base_url) IN
    [base_url |-> cleaned,
     domain |-> netloc(cleaned),
     visited_urls |-> {},
     urls_to_visit |-> << <<cleaned, 0>> >>,
     anchor_tags |-> <<>>,
     redirect_links |-> <<>>,
     anchor_text_analysis |-> <<>>,
     max_pages |-> max_pages,
     max_depth |-> max_depth,
     crawl_complete |-> FALSE,
     selenium_driver |-> FALSE,
     selenium_threshold |-> selenium_threshold,
     ever_enqueued |-> {cleaned},
     dispatched |-> <<>>,
     discarded |-> <<>>,
     passes |-> <<>>,
     drivers_created |-> 0]

\* self.anchor_text_analysis[key].append(item) on a defaultdict(list)
DictAppend(dict, key, item) ==
    [k \in (DOMAIN dict) \cup {key} |->
        IF k = key
        THEN (IF k \in DOMAIN dict THEN dict[k] ELSE <<>>) \o <<item>>
        ELSE dict[k]]

\* the append as it would be without the test of the frontier's length
EnqueueUnguarded(self, final_url, depth) ==
    IF final_url \notin self.visited_urls
    THEN [self EXCEPT !.urls_to_visit = Append(@, <<final_url, depth + 1>>),
                      !.ever_enqueued = @ \cup {final_url}]
    ELSE self

\* the append as it would be if it compared with <= instead of <
EnqueueUpToMaxPages(self, final_url, depth) ==
    IF final_url \notin self.visited_urls /\ Len(self.urls_to_visit) <= self.max_pages
    THEN [self EXCEPT !.urls_to_visit = Append(@, <<final_url, depth + 1>>),
                      !.ever_enqueued = @ \cup {final_url}]
    ELSE self

\* urls_to_visit.append((final_url, depth + 1)) under its guards
Enqueue(self, final_url, depth) ==
    IF final_url \notin self.visited_urls /\ Len(self.urls_to_visit) < self.max_pages
    THEN [self EXCEPT !.urls_to_visit = Append(@, <<final_url, depth + 1>>),
                      !.ever_enqueued = @ \cup {final_url}]
    ELSE self

\* the test as it would be without the comparison of depths
ShouldFollowAtAnyDepth(self, is_internal, depth) ==
    is_internal

\* extract_anchor_data: if is_internal and depth < self.max_depth
ShouldFollow(self, is_internal, depth) ==
    is_internal /\ depth < self.max_depth

(* One <a href> element as the parser hands it over:                      *)
(*   href = "skip"       an empty, javascript: or tel: href               *)
(*   href = "malformed"  an href on which urljoin raises ValueError        *)
(*   href = "url"        absolute_url is urljoin(page_url, href), head is *)
(*                       what a HEAD request for it answers               *)
Link(href, absolute_url, anchor_text, head) ==
    [href |-> href, absolute_url |-> absolute_url, anchor_text |-> anchor_text,
     head |-> head]

\* The body of extract_anchor_data's loop for one link that is not skipped.
\* extraction_method on the redirect record and on the aggregate entry is a
\* history field: the source keeps it on the anchor record only.
ExtractLink(self, page_anchors, link, index, page_url, depth, method) ==
    LET absolute_url == link.absolute_url
        is_internal == is_valid_internal_url(self, absolute_url)
        redirect_info == IF is_internal
                         THEN check_redirect_chain(absolute_url, link.head)
                         ELSE None
        anchor_data == [id |-> Len(self.anchor_tags) + Len(page_anchors) + 1,
                        page_url |-> page_url,
                        page_depth |-> depth,
                        absolute_url |-> absolute_url,
                        anchor_text |-> link.anchor_text,
                        is_internal |-> is_internal,
                        redirect_info |-> redirect_info,
                        extraction_method |-> method,
                        anchor_index_on_page |-> index]
        final_url == IF redirect_info # None THEN redirect_info.final_url
                     ELSE absolute_url
        s1 == IF redirect_info # None /\ redirect_info.is_redirect
              THEN [self EXCEPT !.redirect_links = Append(@,
                       [page_containing_link |-> page_url,
                        link_text |-> link.anchor_text,
                        original_url |-> redirect_info.original_url,
                        final_url |-> redirect_info.final_url,
                        redirect_count |-> redirect_info.redirect_count,
                        redirect_chain |-> redirect_info.redirect_chain,
                        status_codes |-> redirect_info.status_codes,
                        page_depth |-> depth,
                        extraction_method |-> method])]
              ELSE self
        s2 == IF is_internal
              THEN [s1 EXCEPT !.anchor_text_analysis = DictAppend(@, final_url,
                       [text |-> link.anchor_text,
                        source_page |-> page_url,
                        is_redirect |-> redirect_info.is_redirect,
                        extraction_method |-> method])]
              ELSE s1
        s3 == IF ShouldFollow(self, is_internal, depth)
              THEN Enqueue(s2, final_url, depth)
              ELSE s2
    IN [self |-> s3, page_anchors |-> Append(page_anchors, anchor_data)]

\* extract_anchor_data from link number i on; raised tells that the loop
\* ended in an exception, which leaves anchor_tags without this page's records.
RECURSIVE ExtractFrom(_, _, _, _, _, _, _)
ExtractFrom(self, links, i, page_anchors, page_url, depth, method) ==
    IF i > Len(links)
    THEN [self |-> [self EXCEPT !.anchor_tags = @ \o page_anchors],
          page_anchors |-> page_anchors, raised |-> FALSE]
    ELSE IF links[i].href = "skip"
    THEN ExtractFrom(self, links, i + 1, page_anchors, page_url, depth, method)
    ELSE IF links[i].href = "malformed"
    THEN [self |-> self, page_anchors |-> page_anchors, raised |-> TRUE]
    ELSE LET r == ExtractLink(self, page_anchors, links[i], i, page_url, depth, method)
         IN ExtractFrom(r.self, links, i + 1, r.page_anchors, page_url, depth, method)

\* WebsiteAnalyzer.extract_anchor_data
extract_anchor_data(self, links, page_url, depth, method) ==
    ExtractFrom(self, links, 1, <<>>, page_url, depth, method)

\* should_use_selenium as it would be without the test of SELENIUM_AVAILABLE
should_use_selenium_unavailable_too(self, available, spa, initial_link_count) ==
    IF initial_link_count < self.selenium_threshold THEN TRUE
    ELSE IF spa THEN TRUE
    ELSE FALSE

\* WebsiteAnalyzer.should_use_selenium; spa tells that the response text
\* holds one of the SPA indicators.
should_use_selenium(self, available, spa, initial_link_count) ==
    IF ~available THEN FALSE
    ELSE IF initial_link_count < self.selenium_threshold THEN TRUE
    ELSE IF spa THEN TRUE
    ELSE FALSE

\* the removal as it would be if it left redirect_links and
\* anchor_text_analysis alone
PurgeAnchorsOnly(self, url) ==
    LET NotOfPage(a) == a.page_url # url
    IN [self EXCEPT !.anchor_tags = SelectSeq(@, NotOfPage)]

\* crawl_page's removal of what the requests pass recorded for url
PurgePage(self, url) ==
    LET NotOfPage(a) == a.page_url # url
        NotFromPage(r) == r.page_containing_link # url
        NotSourced(item) == item.source_page # url
    IN [self EXCEPT
          !.anchor_tags = SelectSeq(@, NotOfPage),
          !.redirect_links = SelectSeq(@, NotFromPage),
          !.anchor_text_analysis =
              [k \in DOMAIN @ |-> SelectSeq(@[k], NotSourced)]]

----------------------------------------------------------------------------
(* The environment: the site, its answers and the rendering engine.        *)

Site == "example.com"
Other == "other.com"

Home == Url("https", Site, "/", "", "")
PageA == Url("https", Site, "/a", "", "")
Old == Url("https", Site, "/old", "", "")
Pdf == Url("https", Site, "/f", "PDF", "")
External == Url("https", Other, "/x", "", "")

\* a HEAD answer without redirects
Direct(url) == Response(<<>>, url, "200")
\* a HEAD answer after one redirect from url to final
Moved(url, final) == Response(<<[url |-> url, status_code |-> "301"]>>, final, "200")

\* the links the pages of the crawled site are made of: to a page of the
\* site, to a moved page whose redirect leaves the site, to another site and
\* to a document
CrawlLinks ==
    {Link("url", PageA, "Home", Direct(PageA)),
     Link("url", Old, "Home", Moved(Old, External)),
     Link("url", External, "Home", None),
     Link("url", Pdf, "Home", None)}

\* the links of a site that fails: a link whose HEAD request fails and an
\* href urljoin cannot parse, next to a sound one
FailureLinks ==
    {Link("url", PageA, "Home", Direct(PageA)),
     Link("url", Old, "Home", Exception),
     Link("malformed", None, "Home", None)}

\* the links of a site that links to one page with and without a fragment:
\* urljoin keeps the fragment of the href
PageATop == Url("https", Site, "/a", "", "top")
FragmentLinks ==
    {Link("url", PageA, "Home", Direct(PageA)),
     Link("url", PageATop, "Home", Direct(PageATop))}

\* the links of a site with a moved page: /old answers 301 to /a
RedirectLinks ==
    {Link("url", PageA, "Home", Direct(PageA)),
     Link("url", Old, "More", Moved(Old, PageA))}

\* all sequences of at most n elements of S
RECURSIVE SeqsUpTo(_, _)
SeqsUpTo(S, n) ==
    IF n = 0 THEN {<<>>}
    ELSE LET shorter == SeqsUpTo(S, n - 1)
         IN shorter \cup {Append(q, x) : q \in shorter, x \in S}

\* what a GET of a page answers: a failure (network error, timeout, non-2xx
\* status), a body that is not text/html, or HTML with its links
PagesUpTo(links, n) ==
    {[kind |-> "error"], [kind |-> "nonhtml"]}
        \cup {[kind |-> "html", links |-> l, spa |-> spa] :
                 l \in SeqsUpTo(links, n), spa \in BOOLEAN}

Pages(links) == PagesUpTo(links, MaxLinks)

\* what the rendering engine does with a page: the driver cannot be set up,
\* the load or the wait for <body> fails, or it hands over the rendered HTML
RendersUpTo(links, n) ==
    {[kind |-> "setup_failed"], [kind |-> "load_failed"]}
        \cup {[kind |-> "html", links |-> l] : l \in SeqsUpTo(links, n)}

Renders(links) == RendersUpTo(links, MaxLinks)

\* the links of a site on whose pages a sound link comes before an href
\* urljoin cannot parse
PartialLinks ==
    {Link("url", PageA, "Home", Direct(PageA)),
     Link("malformed", None, "Home", None)}

\* the seed of a start request; Empty is a missing or empty url
Empty == [empty |-> TRUE]
Seeds == {Url("", Site, "/", "", "top"), Home}

\* the selenium_threshold of a start request: one no page falls short of,
\* and one every page with fewer than MaxLinks anchors falls short of
Thresholds == {0, MaxLinks}

Requests(seeds) ==
    [url : seeds, max_pages : 0..MaxPagesBound, max_depth : 0..MaxDepthBound,
     selenium_threshold : Thresholds]

----------------------------------------------------------------------------
(* The state.                                                              *)

VARIABLES
    SELENIUM_AVAILABLE,  \* whether the selenium imports succeeded
    current_analyzer,    \* the global: 0 (None) or the index of a job
    analyzers,           \* every WebsiteAnalyzer created so far
    threads,             \* the worker threads started so far
    response,            \* what the last request was answered
    resolved,            \* the last RedirectInfo the resolver returned
    returned             \* the last call of a method outside a crawl, and
                         \* what it returned

vars ==
    <<SELENIUM_AVAILABLE, current_analyzer, analyzers, threads, response, resolved,
      returned>>

Init ==
    /\ SELENIUM_AVAILABLE \in BOOLEAN
    /\ current_analyzer = 0
    /\ analyzers = <<>>
    /\ threads = <<>>
    /\ response = None
    /\ resolved = None
    /\ returned = None

\* the jobs created and the threads started so far
Jobs == 1..Len(analyzers)
Threads == 1..Len(threads)

----------------------------------------------------------------------------
(* The routes.                                                             *)

\* the route as it would be without the test of website_url, handed an empty
\* string: _clean_url('') is 'https://', and the job is created
start_analysis_unchecked(req) ==
    /\ analyzers' = Append(analyzers,
            WebsiteAnalyzer(IF req.url = Empty THEN Url("", "", "", "", "") ELSE req.url,
                            req.max_pages, req.max_depth, req.selenium_threshold))
    /\ current_analyzer' = Len(analyzers) + 1
    /\ threads' = Append(threads,
            [pc |-> "start", self |-> 0, crawled_count |-> 0,
             url |-> None, depth |-> 0, initial_count |-> 0,
             results |-> <<>>])
    /\ response' = [route |-> "start_analysis", status |-> 200,
                    empty |-> req.url = Empty]
    /\ UNCHANGED <<SELENIUM_AVAILABLE, resolved, returned>>

\* POST /start_analysis.  The field empty of the answer is a history field:
\* whether the request answered came without a url.
start_analysis_route(req) ==
    IF req.url = Empty
    THEN /\ response' = [route |-> "start_analysis", status |-> 400,
                         empty |-> TRUE]
         /\ UNCHANGED <<SELENIUM_AVAILABLE, current_analyzer, analyzers, threads, resolved, returned>>
    ELSE /\ analyzers' = Append(analyzers,
                 WebsiteAnalyzer(req.url, req.max_pages, req.max_depth,
                                 req.selenium_threshold))
         /\ current_analyzer' = Len(analyzers) + 1
         /\ threads' = Append(threads,
                 [pc |-> "start", self |-> 0, crawled_count |-> 0,
                  url |-> None, depth |-> 0, initial_count |-> 0,
             results |-> <<>>])
         /\ response' = [route |-> "start_analysis", status |-> 200,
                         empty |-> FALSE]
         /\ UNCHANGED <<SELENIUM_AVAILABLE, resolved, returned>>

----------------------------------------------------------------------------
(* The worker thread: analyze_worker and WebsiteAnalyzer.start_analysis.   *)

\* analyze_worker: the thread reads the global current_analyzer when it
\* runs and enters start_analysis on that object
analyze_worker(t) ==
    /\ threads[t].pc = "start"
    /\ threads' = [threads EXCEPT ![t].self = current_analyzer,
                                  ![t].crawled_count = 0,
                                  ![t].pc = "loop"]
    /\ UNCHANGED <<SELENIUM_AVAILABLE, current_analyzer, analyzers, response, resolved, returned>>

\* the while condition of start_analysis
LoopRuns(t) ==
    LET self == analyzers[threads[t].self] IN
    self.urls_to_visit # <<>> /\ threads[t].crawled_count < self.max_pages

\* the test as it would be without the look into visited_urls
SkipsTooDeepOnly(self, entry) ==
    entry[2] > self.max_depth

\* the entry popped is already visited or too deep: continue
Skips(self, entry) ==
    entry[1] \in self.visited_urls \/ entry[2] > self.max_depth

\* one iteration that discards the popped entry
LoopDiscard(t) ==
    /\ threads[t].pc = "loop"
    /\ LoopRuns(t)
    /\ LET j == threads[t].self
           self == analyzers[j]
           entry == Head(self.urls_to_visit)
       IN /\ Skips(self, entry)
          /\ analyzers' = [analyzers EXCEPT ![j].urls_to_visit = Tail(@),
                                            ![j].discarded = Append(@, entry)]
    /\ UNCHANGED <<SELENIUM_AVAILABLE, current_analyzer, threads, response, resolved, returned>>

\* one iteration that marks the popped URL visited and submits crawl_page;
\* dispatched is a history field: the URLs handed to crawl_page, in order
LoopDispatch(t) ==
    /\ threads[t].pc = "loop"
    /\ LoopRuns(t)
    /\ LET j == threads[t].self
           self == analyzers[j]
           entry == Head(self.urls_to_visit)
       IN /\ ~Skips(self, entry)
          /\ analyzers' = [analyzers EXCEPT
                 ![j].urls_to_visit = Tail(@),
                 ![j].visited_urls = @ \cup {entry[1]},
                 ![j].dispatched = Append(@, entry[1])]
          /\ threads' = [threads EXCEPT ![t].pc = "crawl",
                                        ![t].url = entry[1],
                                        ![t].depth = entry[2]]
    /\ UNCHANGED <<SELENIUM_AVAILABLE, current_analyzer, response, resolved, returned>>

\* WebsiteAnalyzer._cleanup_selenium; quit_raises tells that driver.quit() raised
_cleanup_selenium(self, quit_raises) ==
    IF self.selenium_driver /\ ~quit_raises
    THEN [self EXCEPT !.selenium_driver = FALSE]
    ELSE self

\* the loop ends: release the driver, set crawl_complete
LoopExit(t) ==
    /\ threads[t].pc = "loop"
    /\ ~LoopRuns(t)
    /\ \E quit_raises \in BOOLEAN :
         LET j == threads[t].self
             cleaned == _cleanup_selenium(analyzers[j], quit_raises)
         IN /\ (quit_raises => analyzers[j].selenium_driver)
            /\ analyzers' = [analyzers EXCEPT ![j] = [cleaned EXCEPT !.crawl_complete = TRUE]]
    /\ threads' = [threads EXCEPT ![t].pc = "done"]
    /\ UNCHANGED <<SELENIUM_AVAILABLE, current_analyzer, response, resolved, returned>>

\* the return as it would be if the loop counted every page
ReturnedCounted(t, success) ==
    [threads EXCEPT ![t].pc = "loop",
                    ![t].crawled_count = @ + 1,
                    ![t].results = Append(@, success)]

\* the return as it would be if crawl_page let a failure escape: the
\* exception leaves start_analysis and ends the thread
ReturnedOrAborted(t, success) ==
    [threads EXCEPT ![t].pc = IF success THEN "loop" ELSE "aborted",
                    ![t].crawled_count = IF success THEN @ + 1 ELSE @,
                    ![t].results = Append(@, success)]

\* crawl_page returns (success, message) to the loop, which increments
\* crawled_count if success; results is a history field, what crawl_page
\* returned to this loop so far
Returned(t, success) ==
    [threads EXCEPT ![t].pc = "loop",
                    ![t].crawled_count = IF success THEN @ + 1 ELSE @,
                    ![t].results = Append(@, success)]

\* crawl_page up to the call of extract_anchor_data_selenium: the GET, the
\* content-type test, the requests pass, should_use_selenium and the purge
\* (initial_count, a local of crawl_page, is kept in the thread's record while
\* the selenium pass is at work)
crawl_page(t, pages) ==
    /\ threads[t].pc = "crawl"
    /\ \E page \in pages :
         LET j == threads[t].self
             self == analyzers[j]
             url == threads[t].url
         IN IF page.kind # "html"
            THEN /\ threads' = Returned(t, FALSE)
                 /\ UNCHANGED analyzers
            ELSE LET r == extract_anchor_data(self, page.links, url, threads[t].depth, "requests")
                     logged == [r.self EXCEPT !.passes = Append(@, <<url, "requests">>)]
                 IN IF r.raised
                    THEN /\ analyzers' = [analyzers EXCEPT ![j] = logged]
                         /\ threads' = Returned(t, FALSE)
                    ELSE IF should_use_selenium(self, SELENIUM_AVAILABLE, page.spa, Len(r.page_anchors))
                    THEN /\ analyzers' = [analyzers EXCEPT ![j] =
                                [PurgePage(logged, url) EXCEPT
                                    !.passes = Append(@, <<url, "fallback">>)]]
                         /\ threads' = [threads EXCEPT
                                ![t].pc = "render",
                                ![t].initial_count = Len(r.page_anchors)]
                    ELSE /\ analyzers' = [analyzers EXCEPT ![j] = logged]
                         /\ threads' = Returned(t, TRUE)
    /\ UNCHANGED <<SELENIUM_AVAILABLE, current_analyzer, response, resolved, returned>>

\* WebsiteAnalyzer._setup_selenium_driver, reached with SELENIUM_AVAILABLE:
\* a held driver is reused, else one is created unless the setup fails
_setup_selenium_driver(self, setup_fails) ==
    IF self.selenium_driver THEN self
    ELSE IF setup_fails THEN self
    ELSE [self EXCEPT !.selenium_driver = TRUE, !.drivers_created = @ + 1]

\* the rest of crawl_page: extract_anchor_data_selenium and the return
extract_anchor_data_selenium(t, renders) ==
    /\ threads[t].pc = "render"
    /\ \E render \in renders :
         LET j == threads[t].self
             url == threads[t].url
             self == _setup_selenium_driver(analyzers[j], render.kind = "setup_failed")
         IN /\ (render.kind = "setup_failed" => ~analyzers[j].selenium_driver)
            /\ IF ~self.selenium_driver \/ render.kind # "html"
               THEN analyzers' = [analyzers EXCEPT ![j] = self]
               ELSE LET r == extract_anchor_data(self, render.links, url, threads[t].depth, "selenium")
                    IN analyzers' = [analyzers EXCEPT ![j] =
                           [r.self EXCEPT !.passes = Append(@, <<url, "selenium">>)]]
    /\ threads' = [Returned(t, TRUE) EXCEPT ![t].initial_count = 0]
    /\ UNCHANGED <<SELENIUM_AVAILABLE, current_analyzer, response, resolved, returned>>

\* a step of worker thread t over a site made of the given links
Worker(t, links) ==
    \/ analyze_worker(t)
    \/ LoopDiscard(t)
    \/ LoopDispatch(t)
    \/ LoopExit(t)
    \/ crawl_page(t, Pages(links))
    \/ extract_anchor_data_selenium(t, Renders(links))

----------------------------------------------------------------------------
(* The report routes.                                                      *)

\* get_anchor_text_report_for_url's matching_data for the cleaned target
matching_data(self, target_url) ==
    LET target == _clean_url(target_url)
        Leads(r) == r.final_url = target
        leading == SelectSeq(self.redirect_links, Leads)
    IN (IF target \in DOMAIN self.anchor_text_analysis
        THEN self.anchor_text_analysis[target] ELSE <<>>)
       \o [i \in 1..Len(leading) |->
              [text |-> leading[i].link_text,
               source_page |-> leading[i].page_containing_link,
               is_redirect |-> TRUE,
               extraction_method |-> leading[i].extraction_method]]

\* the number of source pages a breakdown row lists at most
MaxExamplePages == 5

\* Counter over the texts of data: <<text, count>> pairs in the order the
\* texts were first met (a dict keeps insertion order)
RECURSIVE CounterFrom(_, _, _)
CounterFrom(data, i, counter) ==
    IF i > Len(data) THEN counter
    ELSE LET text == data[i].text
             met == {k \in 1..Len(counter) : counter[k][1] = text}
         IN IF met = {}
            THEN CounterFrom(data, i + 1, Append(counter, <<text, 1>>))
            ELSE CounterFrom(data, i + 1,
                     [k \in 1..Len(counter) |->
                         IF k \in met THEN <<text, counter[k][2] + 1>> ELSE counter[k]])

\* most_common as it would be if it returned the pairs in insertion order
most_common_unsorted(counter) == counter

\* Counter.most_common(): sorted(items, key = count, reverse = True), a
\* stable sort, so pairs of equal count keep their insertion order
RECURSIVE most_common(_)
most_common(counter) ==
    IF counter = <<>> THEN <<>>
    ELSE LET n == Len(counter)
             last == counter[n]
             sorted == most_common(SubSeq(counter, 1, n - 1))
             before == {k \in 1..Len(sorted) : sorted[k][2] >= last[2]}
             at == Cardinality(before)
         IN SubSeq(sorted, 1, at) \o <<last>> \o SubSeq(sorted, at + 1, Len(sorted))

\* list(pages)[:n] of a set: some n of its elements
Take(pages, n) ==
    IF Cardinality(pages) <= n THEN pages
    ELSE CHOOSE some \in SUBSET pages : Cardinality(some) = n

\* WebsiteAnalyzer.get_anchor_text_report_for_url
get_anchor_text_report_for_url(self, target_url) ==
    LET data == matching_data(self, target_url)
        text_counter == CounterFrom(data, 1, <<>>)
        rows == most_common(text_counter)
        source_pages(text) ==
            {data[i].source_page : i \in {k \in 1..Len(data) : data[k].text = text}}
    IN IF data = <<>> THEN None
       ELSE [target_url |-> _clean_url(target_url),
             total_links_found |-> Len(data),
             unique_anchor_texts |-> Len(text_counter),
             anchor_text_breakdown |->
                 [r \in 1..Len(rows) |->
                     [anchor_text |-> rows[r][1],
                      count |-> rows[r][2],
                      source_pages_count |-> Cardinality(source_pages(rows[r][1])),
                      source_pages |-> Take(source_pages(rows[r][1]), MaxExamplePages),
                      has_redirects |->
                          \E i \in 1..Len(data) :
                              data[i].text = rows[r][1] /\ data[i].is_redirect]]]

ReportRoutes ==
    {"download_redirects_csv", "download_anchor_analysis_csv", "analyze_url",
     "get_all_urls"}

\* the guard every report route starts with
NoCompletedAnalysis ==
    current_analyzer = 0 \/ ~analyzers[current_analyzer].crawl_complete

\* what a report route answers; target is the url of an /analyze_url request.
\* job is the analyzer the answer was read from.
Answer(route, target) ==
    IF NoCompletedAnalysis
    THEN [route |-> route, status |-> 400]
    ELSE IF route # "analyze_url"
    THEN [route |-> route, status |-> 200, job |-> current_analyzer]
    ELSE IF target = Empty
    THEN [route |-> route, status |-> 400]
    ELSE IF matching_data(analyzers[current_analyzer], target) = <<>>
    THEN [route |-> route, status |-> 404, job |-> current_analyzer]
    ELSE [route |-> route, status |-> 200, job |-> current_analyzer]

\* GET /download_redirects_csv, /download_anchor_analysis_csv, /get_all_urls
\* and POST /analyze_url
Query(route, target) ==
    /\ response' = Answer(route, target)
    /\ UNCHANGED <<SELENIUM_AVAILABLE, current_analyzer, analyzers, threads, resolved, returned>>

----------------------------------------------------------------------------
(* One job: the process serves a single accepted start request, and the    *)
(* site is made of CrawlLinks.                                             *)

StartOnce ==
    /\ current_analyzer = 0
    /\ \E req \in Requests(Seeds \cup {Empty}) : start_analysis_route(req)

Next ==
    \/ StartOnce
    \/ \E t \in Threads : analyze_worker(t)
    \/ \E t \in Threads : LoopDiscard(t)
    \/ \E t \in Threads : LoopDispatch(t)
    \/ \E t \in Threads : LoopExit(t)
    \/ \E t \in Threads : crawl_page(t, Pages(CrawlLinks))
    \/ \E t \in Threads : extract_anchor_data_selenium(t, Renders(CrawlLinks))

Spec == Init /\ [][Next]_vars

----------------------------------------------------------------------------
(* One job over a site that fails, with the worker thread scheduled        *)
(* fairly: every request the crawl makes has a timeout, so each step of    *)
(* the thread ends.                                                        *)

CrawlFailures ==
    \E t \in Threads : Worker(t, FailureLinks)

NextFailures ==
    \/ StartOnce
    \/ \E t \in Threads : analyze_worker(t)
    \/ \E t \in Threads : LoopDiscard(t)
    \/ \E t \in Threads : LoopDispatch(t)
    \/ \E t \in Threads : LoopExit(t)
    \/ \E t \in Threads : crawl_page(t, Pages(FailureLinks))
    \/ \E t \in Threads : extract_anchor_data_selenium(t, Renders(FailureLinks))

SpecFailures == Init /\ [][NextFailures]_vars /\ WF_vars(CrawlFailures)

----------------------------------------------------------------------------
(* One job over a site of PartialLinks, with up to MaxPartialLinks links   *)
(* on a page, so that an extraction can break off after its first link.    *)

NextPartial ==
    \/ StartOnce
    \/ \E t \in Threads : analyze_worker(t)
    \/ \E t \in Threads : LoopDiscard(t)
    \/ \E t \in Threads : LoopDispatch(t)
    \/ \E t \in Threads : LoopExit(t)
    \/ \E t \in Threads : crawl_page(t, PagesUpTo(PartialLinks, MaxPartialLinks))
    \/ \E t \in Threads :
           extract_anchor_data_selenium(t, RendersUpTo(PartialLinks, MaxPartialLinks))

SpecPartial == Init /\ [][NextPartial]_vars

----------------------------------------------------------------------------
(* One job over a site of FragmentLinks.                                   *)

NextFragments ==
    \/ StartOnce
    \/ \E t \in Threads : analyze_worker(t)
    \/ \E t \in Threads : LoopDiscard(t)
    \/ \E t \in Threads : LoopDispatch(t)
    \/ \E t \in Threads : LoopExit(t)
    \/ \E t \in Threads : crawl_page(t, Pages(FragmentLinks))
    \/ \E t \in Threads : extract_anchor_data_selenium(t, Renders(FragmentLinks))

SpecFragments == Init /\ [][NextFragments]_vars

----------------------------------------------------------------------------
(* One job over a site of RedirectLinks.                                   *)

NextRedirects ==
    \/ StartOnce
    \/ \E t \in Threads : analyze_worker(t)
    \/ \E t \in Threads : LoopDiscard(t)
    \/ \E t \in Threads : LoopDispatch(t)
    \/ \E t \in Threads : LoopExit(t)
    \/ \E t \in Threads : crawl_page(t, Pages(RedirectLinks))
    \/ \E t \in Threads : extract_anchor_data_selenium(t, Renders(RedirectLinks))

SpecRedirects == Init /\ [][NextRedirects]_vars

----------------------------------------------------------------------------
(* The resolver alone, over HEAD answers of up to MaxHops redirects.       *)

ResolverUrls == {Old, PageA, External}

Hops == [url : ResolverUrls, status_code : {"301", "302"}]

HeadResponses ==
    {Exception} \cup
    {Response(h, u, c) : h \in SeqsUpTo(Hops, MaxHops), u \in ResolverUrls,
                         c \in {"200", "404"}}

Resolve ==
    /\ resolved = None
    /\ \E url \in ResolverUrls, head \in HeadResponses :
         resolved' = [url |-> url, response |-> head,
                      redirect_info |-> check_redirect_chain(url, head)]
    /\ UNCHANGED <<SELENIUM_AVAILABLE, current_analyzer, analyzers, threads, response, returned>>

NextResolver == Resolve

SpecResolver == Init /\ [][NextResolver]_vars

----------------------------------------------------------------------------
(* The normalizer alone: _clean_url on a URL, and again on its result.     *)

CleanInputs ==
    {Url(scheme, host, path, ext, frag) :
        scheme \in {"", "http", "https"}, host \in {Site, Other},
        path \in {"/", "/a"}, ext \in {"", "PDF"}, frag \in {"", "top"}}

Clean ==
    /\ returned = None
    /\ \E url \in CleanInputs :
         returned' = [method |-> "_clean_url", url |-> url,
                      once |-> _clean_url(url), twice |-> None]
    /\ UNCHANGED <<SELENIUM_AVAILABLE, current_analyzer, analyzers, threads, response, resolved>>

CleanAgain ==
    /\ returned # None
    /\ returned.method = "_clean_url"
    /\ returned.twice = None
    /\ returned' = [returned EXCEPT !.twice = _clean_url(returned.once)]
    /\ UNCHANGED <<SELENIUM_AVAILABLE, current_analyzer, analyzers, threads, response, resolved>>

NextNormalizer ==
    \/ Clean
    \/ CleanAgain

SpecNormalizer == Init /\ [][NextNormalizer]_vars

----------------------------------------------------------------------------
(* The report alone: get_anchor_text_report_for_url on a finished job      *)
(* whose aggregate holds up to MaxItems entries under PageA.               *)

ReportTexts == {"Home", "More"}

\* the i-th page of the site that links to PageA
SourcePage(i) == Url("https", Site, "/p" \o ToString(i), "", "")

\* the aggregate lists of up to n entries; entry i comes from the first page
\* or from page i
RECURSIVE ItemSeqs(_)
ItemSeqs(n) ==
    IF n = 0 THEN {<<>>}
    ELSE LET shorter == ItemSeqs(n - 1)
         IN shorter \cup
            {Append(q, [text |-> text, source_page |-> page, is_redirect |-> FALSE,
                        extraction_method |-> "requests"]) :
                q \in {x \in shorter : Len(x) = n - 1},
                text \in ReportTexts,
                page \in {SourcePage(1), SourcePage(n)}}

\* no redirect record, or one of a link on Home moved to PageA
ReportRedirects ==
    {<<>>,
     <<[page_containing_link |-> Home, link_text |-> "More", original_url |-> Old,
        final_url |-> PageA, redirect_count |-> 1, redirect_chain |-> <<Old, PageA>>,
        status_codes |-> <<"301", "200">>, page_depth |-> 0,
        extraction_method |-> "requests"]>>}

\* a finished job with these entries under PageA and these redirect records
ReportJob(items, redirects) ==
    [WebsiteAnalyzer(Home, MaxPagesBound, MaxDepthBound, 0) EXCEPT
        !.anchor_text_analysis = (PageA :> items),
        !.redirect_links = redirects,
        !.crawl_complete = TRUE]

\* the url asked about: PageA written without scheme and with a fragment,
\* and a URL the job has nothing on
ReportUrls == {Url("", Site, "/a", "", "top"), Old}

Report ==
    /\ returned = None
    /\ \E items \in ItemSeqs(MaxItems), redirects \in ReportRedirects,
          target_url \in ReportUrls :
         LET self == ReportJob(items, redirects)
         IN returned' = [method |-> "get_anchor_text_report_for_url",
                         self |-> self, target_url |-> target_url,
                         report |-> get_anchor_text_report_for_url(self, target_url)]
    /\ UNCHANGED <<SELENIUM_AVAILABLE, current_analyzer, analyzers, threads, response, resolved>>

NextReport == Report

SpecReport == Init /\ [][NextReport]_vars

----------------------------------------------------------------------------
(* The classifier alone, over texts of up to MaxWords words.  A text with  *)
(* a bracketed prefix has a word at least, and one that contains a generic *)
(* phrase ("click here", "read more", ...) has two.                        *)

Texts ==
    {text \in [prefix : {"", "[Image", "[Naked URL", "[Empty"},
               generic : BOOLEAN, words : 0..MaxWords] :
        /\ text.prefix # "" => text.words >= 1
        /\ text.generic => text.words >= 2}

Classify ==
    /\ returned = None
    /\ \E text \in Texts :
         returned' = [method |-> "_classify_anchor_text", text |-> text,
                      label |-> _classify_anchor_text(text)]
    /\ UNCHANGED <<SELENIUM_AVAILABLE, current_analyzer, analyzers, threads, response, resolved>>

\* the same text classified once more, as extract_anchor_data does for the
\* anchor record and for the aggregate entry
ClassifyAgain ==
    /\ returned # None
    /\ returned.method = "_classify_anchor_text"
    /\ "again" \notin DOMAIN returned
    /\ returned' = [method |-> "_classify_anchor_text", text |-> returned.text,
                    label |-> returned.label,
                    again |-> _classify_anchor_text(returned.text)]
    /\ UNCHANGED <<SELENIUM_AVAILABLE, current_analyzer, analyzers, threads, response, resolved>>

NextClassifier ==
    \/ Classify
    \/ ClassifyAgain

SpecClassifier == Init /\ [][NextClassifier]_vars

----------------------------------------------------------------------------
(* The server: up to MaxJobs start requests at any time, the worker        *)
(* threads interleaved with them and with the report routes.               *)

ServerLinks == {Link("url", PageA, "Home", Direct(PageA))}

ServerRequests ==
    [url : {Home, Empty}, max_pages : {MaxPagesBound}, max_depth : {MaxDepthBound},
     selenium_threshold : {0}]

StartAny ==
    /\ Len(analyzers) < MaxJobs
    /\ \E req \in ServerRequests : start_analysis_route(req)

\* the url of an /analyze_url request
ReportTargets == {Empty, PageA, Old}

NextServer ==
    \/ StartAny
    \/ \E t \in Threads : analyze_worker(t)
    \/ \E t \in Threads : LoopDiscard(t)
    \/ \E t \in Threads : LoopDispatch(t)
    \/ \E t \in Threads : LoopExit(t)
    \/ \E t \in Threads : crawl_page(t, Pages(ServerLinks))
    \/ \E t \in Threads : extract_anchor_data_selenium(t, Renders(ServerLinks))
    \/ \E route \in ReportRoutes, target \in ReportTargets : Query(route, target)

SpecServer == Init /\ [][NextServer]_vars

----------------------------------------------------------------------------
(* The claims.                                                             *)

Range(seq) == {seq[i] : i \in 1..Len(seq)}
NoDuplicates(seq) == \A i, k \in 1..Len(seq) : i # k => seq[i] # seq[k]
Max(a, b) == IF a >= b THEN a ELSE b
CountTrue(seq) == Cardinality({i \in 1..Len(seq) : seq[i]})

\* thread t is at the head of the loop of start_analysis, or past it
AtLoop(t) == threads[t].pc \in {"loop", "done"}
\* thread t is inside crawl_page
InCrawlPage(t) == threads[t].pc \in {"crawl", "render"}
\* a crawl_page of job j is at work on page url
InFlight(j, url) ==
    \E t \in Threads : InCrawlPage(t) /\ threads[t].self = j /\ threads[t].url = url

(* C1, as the spec states it, for jobs with max_pages >= 1 (with max_pages *)
(* = 0 the seed alone exceeds it): the number of distinct URLs ever        *)
(* enqueued into urls_to_visit never exceeds max_pages.                    *)
C1_EverEnqueuedWithinMaxPages ==
    \A j \in Jobs :
        analyzers[j].max_pages >= 1 =>
            Cardinality(analyzers[j].ever_enqueued) <= analyzers[j].max_pages

(* C1, amended: at every moment urls_to_visit holds at most                *)
(* max(max_pages, 1) entries; the bound is on the frontier's current       *)
(* length, not on the URLs enqueued over the run.                          *)
C1_FrontierWithinMaxPages ==
    \A j \in Jobs :
        Len(analyzers[j].urls_to_visit) <= Max(analyzers[j].max_pages, 1)

\* a full frontier in a job that has enqueued more than max_pages URLs
C1_FullFrontierAfterMoreEnqueued ==
    \E j \in Jobs :
        /\ analyzers[j].max_pages >= 1
        /\ Len(analyzers[j].urls_to_visit) = analyzers[j].max_pages
        /\ Cardinality(analyzers[j].ever_enqueued) > analyzers[j].max_pages

C3_NoUrlDispatchedTwice ==
    \A j \in Jobs :
        /\ NoDuplicates(analyzers[j].dispatched)
        /\ Range(analyzers[j].dispatched) = analyzers[j].visited_urls
        /\ NoDuplicates(analyzers[j].passes)

\* a finished job that popped an entry of a URL it had already visited, the
\* URL having been enqueued again, and discarded it
C3_VisitedEntryDiscarded ==
    \E j \in Jobs :
        /\ analyzers[j].crawl_complete
        /\ \E i \in 1..Len(analyzers[j].discarded) :
             /\ analyzers[j].discarded[i][2] <= analyzers[j].max_depth
             /\ analyzers[j].discarded[i][1] \in Range(analyzers[j].dispatched)

(* C4: every URL enqueued into urls_to_visit or handed to crawl_page is    *)
(* internal: its host is the job's domain and its path has no skipped      *)
(* extension.                                                              *)
C4_OnlyInternalUrlsCrawled ==
    \A j \in Jobs :
        \A url \in analyzers[j].ever_enqueued \cup Range(analyzers[j].dispatched) :
            is_valid_internal_url(analyzers[j], url)

\* the pages of job j that went from the requests pass to the selenium pass
FellBack(j) ==
    {pass[1] : pass \in {x \in Range(analyzers[j].passes) : x[2] = "fallback"}}

(* C5: once crawl_page has returned for a page that fell back to selenium, *)
(* no anchor record, redirect record or aggregate entry of that page is    *)
(* one the requests pass produced.                                         *)
C5_NoPlainArtifactAfterFallback ==
    \A j \in Jobs :
        \A page \in FellBack(j) :
            ~InFlight(j, page) =>
                LET self == analyzers[j] IN
                /\ \A i \in 1..Len(self.anchor_tags) :
                       self.anchor_tags[i].page_url = page =>
                           self.anchor_tags[i].extraction_method = "selenium"
                /\ \A i \in 1..Len(self.redirect_links) :
                       self.redirect_links[i].page_containing_link = page =>
                           self.redirect_links[i].extraction_method = "selenium"
                /\ \A key \in DOMAIN self.anchor_text_analysis :
                       \A i \in 1..Len(self.anchor_text_analysis[key]) :
                           self.anchor_text_analysis[key][i].source_page = page =>
                               self.anchor_text_analysis[key][i].extraction_method = "selenium"

\* a page that fell back, whose requests pass left a key in the aggregate
\* that the purge emptied, and whose selenium pass recorded an anchor
C5_PageSupersededByRender ==
    \E j \in Jobs :
        \E page \in FellBack(j) :
            /\ ~InFlight(j, page)
            /\ \E key \in DOMAIN analyzers[j].anchor_text_analysis :
                   analyzers[j].anchor_text_analysis[key] = <<>>
            /\ \E i \in 1..Len(analyzers[j].anchor_tags) :
                   /\ analyzers[j].anchor_tags[i].page_url = page
                   /\ analyzers[j].anchor_tags[i].extraction_method = "selenium"

(* C6: every RedirectInfo check_redirect_chain returns has as many status  *)
(* codes as chain entries, redirect_count + 1 of each, and with            *)
(* redirect_count 0 its final URL is the original one; for a failed HEAD   *)
(* request it has redirect_count 0, the URL asked for as original and      *)
(* final URL, and the one status ERROR.                                    *)
C6_RedirectInfoConsistent ==
    resolved # None =>
        LET info == resolved.redirect_info IN
        /\ Len(info.status_codes) = info.redirect_count + 1
        /\ Len(info.redirect_chain) = info.redirect_count + 1
        /\ info.original_url = resolved.url
        /\ (info.redirect_count = 0 => info.final_url = info.original_url)
        /\ (resolved.response = Exception =>
               /\ info.redirect_count = 0
               /\ info.final_url = resolved.url
               /\ info.status_codes = <<"ERROR">>)

\* a chain of two redirects or more resolved to another URL
C6_ChainResolved ==
    /\ resolved # None
    /\ resolved.redirect_info.redirect_count >= 2
    /\ resolved.redirect_info.final_url # resolved.url
    /\ resolved.redirect_info.is_redirect

(* C7: a started crawl ends with crawl_complete set, whatever the pages    *)
(* answer; and a crawl that has ended has set crawl_complete and left its  *)
(* loop with an empty frontier or with crawled_count at max_pages.         *)
C7_CrawlAlwaysCompletes ==
    /\ [](\A t \in Threads :
             threads[t].pc \notin {"start", "loop", "crawl", "render"} =>
                 /\ threads[t].pc = "done"
                 /\ analyzers[threads[t].self].crawl_complete
                 /\ \/ analyzers[threads[t].self].urls_to_visit = <<>>
                    \/ threads[t].crawled_count >= analyzers[threads[t].self].max_pages)
    /\ (Len(threads) >= 1) ~> (Len(analyzers) >= 1 /\ analyzers[1].crawl_complete)

\* a crawl that is complete after a page failed and a later page was crawled
C7_CompleteAfterFailedPage ==
    \E t \in Threads :
        /\ threads[t].pc = "done"
        /\ analyzers[threads[t].self].crawl_complete
        /\ \E i \in 1..Len(threads[t].results) :
               ~threads[t].results[i] /\ i < Len(threads[t].results)

\* no start_analysis is at work on job j
CrawlFinished(j) ==
    /\ j # 0
    /\ analyzers[j].crawl_complete
    /\ \A t \in Threads : threads[t].self = j => threads[t].pc = "done"

(* C8: a crawl thread is started only when no job exists or the current    *)
(* job's crawl is complete.                                                *)
C8_OneActiveJob ==
    [][Len(threads') > Len(threads) =>
          (current_analyzer = 0 \/ analyzers[current_analyzer].crawl_complete)]_vars

(* C9: no two executions of crawl_page are at work on the same job at the  *)
(* same time.                                                              *)
C9_OnePageAtATime ==
    \A t, u \in Threads :
        (t # u /\ InCrawlPage(t) /\ InCrawlPage(u)) => threads[t].self # threads[u].self

(* C10: a report route answers with the job's data only when the current   *)
(* job exists and its crawl has finished; otherwise it answers 400.        *)
C10_DataOnlyAfterCrawl ==
    [][\A route \in ReportRoutes, target \in ReportTargets :
          (Query(route, target) /\ response'.status # 400) =>
              CrawlFinished(current_analyzer)]_vars

(* C11: a start request without a url is answered 400 and changes nothing: *)
(* no job is created, no thread is started, and the current job and every  *)
(* job's data are as before.                                               *)
C11_EmptySeedRejected ==
    [][(response' # response /\ response'.route = "start_analysis" /\ response'.empty) =>
          /\ response'.status = 400
          /\ analyzers' = analyzers
          /\ threads' = threads
          /\ current_analyzer' = current_analyzer]_vars

\* a start without url was rejected while a job was crawling
C11_RejectedWhileCrawling ==
    /\ response # None
    /\ response.route = "start_analysis"
    /\ response.status = 400
    /\ current_analyzer # 0
    /\ \E t \in Threads : threads[t].pc = "crawl"

(* C12: _clean_url applied to its own result changes nothing, and its      *)
(* result has a scheme and no fragment.                                    *)
C12_CleanUrlIdempotent ==
    (returned # None /\ returned.method = "_clean_url") =>
        /\ returned.once.frag = ""
        /\ returned.once.scheme \in {"http", "https"}
        /\ returned.twice # None => returned.twice = returned.once

\* a URL without scheme and with a fragment, cleaned twice
C12_CleanedTwice ==
    /\ returned # None
    /\ returned.method = "_clean_url"
    /\ returned.url.scheme = ""
    /\ returned.url.frag # ""
    /\ returned.twice # None
    /\ returned.once # returned.url

\* no crawl_page is at work on job j: the job is at a page boundary
AtPageBoundary(j) ==
    \A t \in Threads : threads[t].self = j => ~InCrawlPage(t)

\* the aggregate key of anchor record a: the final URL of its redirect info
AnchorKey(a) ==
    IF a.redirect_info # None THEN a.redirect_info.final_url ELSE a.absolute_url

\* the entries of the aggregate under key with this text and source page
AggregateEntries(self, key, text, page) ==
    IF key \in DOMAIN self.anchor_text_analysis
    THEN {i \in 1..Len(self.anchor_text_analysis[key]) :
             /\ self.anchor_text_analysis[key][i].text = text
             /\ self.anchor_text_analysis[key][i].source_page = page}
    ELSE {}

\* the internal anchor records with this key, text and page
InternalRecords(self, key, text, page) ==
    {i \in 1..Len(self.anchor_tags) :
        /\ self.anchor_tags[i].is_internal
        /\ AnchorKey(self.anchor_tags[i]) = key
        /\ self.anchor_tags[i].anchor_text = text
        /\ self.anchor_tags[i].page_url = page}

\* the keys, texts and pages job j has recorded anywhere
RecordedKeys(self) ==
    (DOMAIN self.anchor_text_analysis)
        \cup {AnchorKey(self.anchor_tags[i]) : i \in 1..Len(self.anchor_tags)}
RecordedTexts(self) ==
    {self.anchor_tags[i].anchor_text : i \in 1..Len(self.anchor_tags)}
        \cup UNION {{self.anchor_text_analysis[k][i].text :
                        i \in 1..Len(self.anchor_text_analysis[k])} :
                    k \in DOMAIN self.anchor_text_analysis}
RecordedPages(self) ==
    {self.anchor_tags[i].page_url : i \in 1..Len(self.anchor_tags)}
        \cup UNION {{self.anchor_text_analysis[k][i].source_page :
                        i \in 1..Len(self.anchor_text_analysis[k])} :
                    k \in DOMAIN self.anchor_text_analysis}

(* C13: at page boundaries the aggregate holds exactly one entry per       *)
(* internal anchor record of the job, under the record's final URL and     *)
(* with its text and source page, and no entry for an external record.     *)
C13_AggregateMatchesAnchors ==
    \A j \in Jobs :
        AtPageBoundary(j) =>
            LET self == analyzers[j] IN
            \A key \in RecordedKeys(self), text \in RecordedTexts(self),
               page \in RecordedPages(self) :
                Cardinality(AggregateEntries(self, key, text, page))
                    = Cardinality(InternalRecords(self, key, text, page))

\* the sum of the counts of breakdown rows 1..n
RECURSIVE SumCounts(_, _)
SumCounts(rows, n) ==
    IF n = 0 THEN 0 ELSE rows[n].count + SumCounts(rows, n - 1)

\* the place where text is first met in data
FirstIndex(data, text) ==
    CHOOSE i \in 1..Len(data) :
        data[i].text = text /\ \A k \in 1..(i - 1) : data[k].text # text

(* C14: get_anchor_text_report_for_url returns None exactly when the       *)
(* aggregate has no entry under the cleaned target and no redirect leads   *)
(* to it; otherwise every distinct text has exactly one breakdown row, the *)
(* rows are in non-increasing count order with ties in first-met order,    *)
(* the counts sum to total_links_found, unique_anchor_texts is the number  *)
(* of rows, and no row lists more than 5 source pages.                     *)
C14_ReportBreakdown ==
    (returned # None /\ returned.method = "get_anchor_text_report_for_url") =>
        LET self == returned.self
            target == _clean_url(returned.target_url)
            data == matching_data(self, returned.target_url)
            texts == {data[i].text : i \in 1..Len(data)}
            report == returned.report
            no_data ==
                /\ \A key \in DOMAIN self.anchor_text_analysis :
                       key = target => self.anchor_text_analysis[key] = <<>>
                /\ \A i \in 1..Len(self.redirect_links) :
                       self.redirect_links[i].final_url # target
        IN /\ (report = None) <=> no_data
           /\ report # None =>
                 LET rows == report.anchor_text_breakdown IN
                 /\ {rows[r].anchor_text : r \in 1..Len(rows)} = texts
                 /\ Len(rows) = Cardinality(texts)
                 /\ \A r \in 1..Len(rows) :
                        rows[r].count = Cardinality({i \in 1..Len(data) :
                                                        data[i].text = rows[r].anchor_text})
                 /\ \A r, q \in 1..Len(rows) :
                        r < q =>
                            /\ rows[r].count >= rows[q].count
                            /\ rows[r].count = rows[q].count =>
                                   FirstIndex(data, rows[r].anchor_text)
                                       < FirstIndex(data, rows[q].anchor_text)
                 /\ SumCounts(rows, Len(rows)) = report.total_links_found
                 /\ report.total_links_found = Len(data)
                 /\ report.unique_anchor_texts = Len(rows)
                 /\ \A r \in 1..Len(rows) :
                        /\ Cardinality(rows[r].source_pages) <= 5
                        /\ rows[r].source_pages \subseteq
                               {data[i].source_page : i \in 1..Len(data)}

\* a report in which the text met second is listed first, and whose first
\* row has more source pages than it lists
C14_ReorderedAndTruncated ==
    /\ returned # None
    /\ returned.method = "get_anchor_text_report_for_url"
    /\ returned.report # None
    /\ LET rows == returned.report.anchor_text_breakdown
           data == matching_data(returned.self, returned.target_url)
       IN /\ Len(rows) = 2
          /\ rows[1].anchor_text # data[1].text
          /\ rows[1].source_pages_count > Cardinality(rows[1].source_pages)

(* C15: _classify_anchor_text gives every text exactly one of the seven    *)
(* labels, the same on every call, by the first rule that matches in the   *)
(* order image, naked_url, empty, generic, long_descriptive, short,        *)
(* descriptive: a text of two words with a generic phrase is generic, and  *)
(* a text that starts with [Image is image whatever it contains.           *)
C15_FirstMatchWins ==
    (returned # None /\ returned.method = "_classify_anchor_text") =>
        LET text == returned.text
            label == returned.label
            bracketed == text.prefix \in {"[Image", "[Naked URL", "[Empty"}
        IN /\ label \in {"image", "naked_url", "empty", "generic",
                          "long_descriptive", "short", "descriptive"}
           /\ "again" \in DOMAIN returned => returned.again = label
           /\ (label = "image") <=> (text.prefix = "[Image")
           /\ (label = "naked_url") <=> (text.prefix = "[Naked URL")
           /\ (label = "empty") <=> (text.prefix = "[Empty")
           /\ (label = "generic") <=> (~bracketed /\ text.generic)
           /\ (label = "long_descriptive") <=>
                  (~bracketed /\ ~text.generic /\ text.words > 8)
           /\ (label = "short") <=>
                  (~bracketed /\ ~text.generic /\ text.words <= 2)
           /\ (label = "descriptive") <=>
                  (~bracketed /\ ~text.generic /\ text.words > 2 /\ text.words <= 8)

\* "Click here" was classified, twice, and is generic
C15_ClickHereIsGeneric ==
    /\ returned # None
    /\ returned.method = "_classify_anchor_text"
    /\ returned.text = Text("", TRUE, 2)
    /\ returned.label = "generic"
    /\ "again" \in DOMAIN returned

\* every entry of job j's frontier, and every page a crawl_page of job j is
\* at work on, has a depth of at most max_depth
WithinMaxDepth(j) ==
    /\ \A i \in 1..Len(analyzers[j].urls_to_visit) :
           analyzers[j].urls_to_visit[i][2] <= analyzers[j].max_depth
    /\ \A t \in Threads :
           (InCrawlPage(t) /\ threads[t].self = j) =>
               threads[t].depth <= analyzers[j].max_depth

\* the entries this step appends to job j's frontier are of URLs that are
\* not visited, at depths of at most max_depth
InsertsUnvisited(j) ==
    LET old == analyzers[j].urls_to_visit
        new == analyzers'[j].urls_to_visit
    IN Len(new) > Len(old) =>
           \A i \in (Len(old) + 1)..Len(new) :
               /\ new[i][1] \notin analyzers[j].visited_urls
               /\ new[i][2] <= analyzers[j].max_depth

\* with max_depth = 0 nothing but the seed is enqueued or fetched
SeedOnly(j) ==
    analyzers[j].max_depth = 0 =>
        /\ analyzers[j].ever_enqueued = {analyzers[j].base_url}
        /\ Range(analyzers[j].dispatched) \subseteq {analyzers[j].base_url}

C17_FrontierAtMostMaxPages ==
    \A j \in Jobs : Len(analyzers[j].urls_to_visit) <= analyzers[j].max_pages

(* C17, amended: extract_anchor_data appends only while the frontier is    *)
(* shorter than max_pages, so a frontier that has grown holds at most      *)
(* max_pages entries; the constructor puts the seed there whatever         *)
(* max_pages is, so the frontier holds more than max_pages entries only    *)
(* when max_pages < 1 and it is the seed alone, never popped.              *)
C17_FrontierGrowsBelowMaxPages ==
    /\ [](\A j \in Jobs :
             \/ Len(analyzers[j].urls_to_visit) <= analyzers[j].max_pages
             \/ /\ analyzers[j].max_pages < 1
                /\ analyzers[j].urls_to_visit = <<<<analyzers[j].base_url, 0>>>>
                /\ analyzers[j].dispatched = <<>>
                /\ analyzers[j].discarded = <<>>)
    /\ [][\A j \in Jobs :
             Len(analyzers'[j].urls_to_visit) > Len(analyzers[j].urls_to_visit) =>
                 /\ Len(analyzers[j].urls_to_visit) < analyzers[j].max_pages
                 /\ Len(analyzers'[j].urls_to_visit) <= analyzers[j].max_pages]_vars

\* a frontier at its bound: with max_pages = 1 it holds the one entry
\* appended from the seed page, whose selenium pass recorded a link to PageA
C17_FrontierAtItsBound ==
    \E j \in Jobs :
        /\ analyzers[j].max_pages = 1
        /\ analyzers[j].urls_to_visit = <<<<PageA, 1>>>>
        /\ <<analyzers[j].base_url, "selenium">> \in Range(analyzers[j].passes)
        /\ \E i \in 1..Len(analyzers[j].anchor_tags) :
               /\ analyzers[j].anchor_tags[i].absolute_url = PageA
               /\ analyzers[j].anchor_tags[i].extraction_method = "selenium"

(* C18: every URL in visited_urls or urls_to_visit is equal to its own     *)
(* _clean_url, and no two pages fetched and no two keys of the aggregate   *)
(* differ only in what _clean_url removes.                                 *)
C18_CanonicalUrlsOnly ==
    \A j \in Jobs :
        LET self == analyzers[j]
            held == self.visited_urls
                       \cup {self.urls_to_visit[i][1] : i \in 1..Len(self.urls_to_visit)}
        IN /\ \A url \in held : _clean_url(url) = url
           /\ \A u, v \in Range(self.dispatched) :
                  _clean_url(u) = _clean_url(v) => u = v
           /\ \A u, v \in DOMAIN self.anchor_text_analysis :
                  _clean_url(u) = _clean_url(v) => u = v

(* C19: a page whose requests pass went through goes on to the selenium    *)
(* pass if and only if selenium is available and the requests pass yielded *)
(* fewer anchors than selenium_threshold or the body has an SPA indicator; *)
(* without selenium no page falls back, nothing is purged, no driver is    *)
(* created and every anchor record has the method requests.                *)
C19_FallbackIffAvailableAndNeeded ==
    /\ [][\A t \in Threads, page \in Pages(CrawlLinks) :
             (page.kind = "html" /\ crawl_page(t, {page})) =>
                 LET self == analyzers[threads[t].self]
                     r == extract_anchor_data(self, page.links, threads[t].url,
                                              threads[t].depth, "requests")
                 IN ~r.raised =>
                        ((threads'[t].pc = "render") <=>
                            /\ SELENIUM_AVAILABLE
                            /\ \/ Len(r.page_anchors) < self.selenium_threshold
                               \/ page.spa)]_vars
    /\ [](~SELENIUM_AVAILABLE =>
             \A j \in Jobs :
                 /\ FellBack(j) = {}
                 /\ analyzers[j].drivers_created = 0
                 /\ \A i \in 1..Len(analyzers[j].passes) :
                        analyzers[j].passes[i][2] = "requests"
                 /\ \A i \in 1..Len(analyzers[j].anchor_tags) :
                        analyzers[j].anchor_tags[i].extraction_method = "requests")

\* without selenium, a page whose requests pass found fewer anchors than
\* selenium_threshold was counted as crawled by that pass alone
C19_NoFallbackWithoutSelenium ==
    /\ ~SELENIUM_AVAILABLE
    /\ \E t \in Threads :
           LET self == analyzers[threads[t].self] IN
           /\ threads[t].pc = "loop"
           /\ threads[t].results = <<TRUE>>
           /\ self.selenium_threshold >= 1
           /\ self.anchor_tags = <<>>
           /\ self.passes = <<<<self.base_url, "requests">>>>

(* C20: a job creates at most one selenium driver, and a job whose         *)
(* crawl_complete is set holds no driver.                                  *)
C20_DriverReleasedAtCompletion ==
    \A j \in Jobs :
        /\ analyzers[j].drivers_created <= 1
        /\ analyzers[j].crawl_complete => ~analyzers[j].selenium_driver

\* this step is the return of a crawl_page of thread t that failed in its
\* requests pass: the fetch failed, the body was not HTML, or the extraction
\* raised
PageFailed(t) ==
    /\ threads[t].pc = "crawl"
    /\ threads'[t].pc = "loop"
    /\ Len(threads'[t].results) = Len(threads[t].results) + 1
    /\ ~threads'[t].results[Len(threads'[t].results)]

(* C21: a page whose fetch fails, whose body is not HTML or whose          *)
(* extraction raises leaves the job's anchor records, redirect records,    *)
(* aggregate and frontier as they were when the page was dispatched.       *)
C21_FailedPageLeavesNoTrace ==
    [][\A t \in Threads :
          PageFailed(t) =>
              LET j == threads[t].self IN
              /\ analyzers'[j].anchor_tags = analyzers[j].anchor_tags
              /\ analyzers'[j].redirect_links = analyzers[j].redirect_links
              /\ analyzers'[j].anchor_text_analysis = analyzers[j].anchor_text_analysis
              /\ analyzers'[j].urls_to_visit = analyzers[j].urls_to_visit
              /\ analyzers'[j].visited_urls = analyzers[j].visited_urls]_vars

\* the anchor records of page url in job self made by the given method
RecordsOfPage(self, url, method) ==
    {i \in 1..Len(self.anchor_tags) :
        /\ self.anchor_tags[i].page_url = url
        /\ self.anchor_tags[i].extraction_method = method}

\* this step is the return of a crawl_page of thread t whose selenium pass
\* extracted nothing: no driver, or the load or the wait failed
RenderFailed(t) ==
    /\ threads[t].pc = "render"
    /\ threads'[t].pc = "loop"
    /\ analyzers'[threads[t].self].passes = analyzers[threads[t].self].passes

(* C22: when the selenium pass of a page fails, the anchor records the     *)
(* requests pass made for the page are there when crawl_page returns.      *)
C22_PlainRecordsKeptOnRenderFailure ==
    [][\A t \in Threads :
          RenderFailed(t) =>
              Cardinality(RecordsOfPage(analyzers'[threads[t].self],
                                        threads[t].url, "requests"))
                  = threads[t].initial_count]_vars

\* the internal anchor records of job self whose final URL is target
LinksTo(self, target) ==
    {i \in 1..Len(self.anchor_tags) :
        /\ self.anchor_tags[i].is_internal
        /\ AnchorKey(self.anchor_tags[i]) = target}

(* C23: in a complete job the report for a URL counts every internal link  *)
(* whose final URL it is exactly once in total_links_found, redirecting or *)
(* not, and there is a report for every URL such a link leads to.          *)
C23_EachLinkCountedOnce ==
    \A j \in Jobs :
        (analyzers[j].crawl_complete /\ AtPageBoundary(j)) =>
            LET self == analyzers[j] IN
            \A target \in RecordedKeys(self) :
                LET report == get_anchor_text_report_for_url(self, target) IN
                /\ LinksTo(self, target) # {} => report # None
                /\ report # None =>
                       report.total_links_found = Cardinality(LinksTo(self, target))

\* what the route get_all_urls answers from job self: the aggregate's keys
get_all_urls(self) == DOMAIN self.anchor_text_analysis

(* C24: in a complete job every URL that get_all_urls lists has at least   *)
(* one aggregate entry and get_anchor_text_report_for_url on it returns a  *)
(* report, also after a fallback purge and for keys carrying a fragment.   *)
C24_EveryListedUrlHasReport ==
    \A j \in Jobs :
        (analyzers[j].crawl_complete /\ AtPageBoundary(j)) =>
            \A url \in get_all_urls(analyzers[j]) :
                /\ analyzers[j].anchor_text_analysis[url] # <<>>
                /\ get_anchor_text_report_for_url(analyzers[j], url) # None

====
